---- MODULE Spec2Model ----
(***************************************************************************)
(* Model of mistral_chatbot.py: a Streamlit script that keeps a chat       *)
(* transcript in st.session_state.messages, posts it to the Mistral        *)
(* completion endpoint on every chat_input submission and appends the      *)
(* reply (or the error text) as an assistant turn.                         *)
(*                                                                         *)
(* Text is modelled as a sequence of chunks, so that an f-string is the    *)
(* concatenation of its literal parts and its interpolated values.         *)
(***************************************************************************)
EXTENDS Integers, Sequences, FiniteSets, TLC

\* ---------------------------------------------------------------- bounds
\* Longest transcript explored; chat_input is not offered beyond it.
MaxTurns == 4

\* --------------------------------------------------------- input domains
\* Values of the sidebar password box (st.text_input returns "" when empty).
ApiKeys == {<<>>, <<"sk-key">>}

\* Texts the user can submit in the chat box.
Prompts == {<<"Hello">>, <<"Bye">>}

\* Reply texts the endpoint can put in choices[0].message.content.
Replies == {<<"Hi there">>, <<"Bye">>}

\* Success-status JSON bodies: well formed, without "choices", and with an
\* empty "choices" list.
GoodBody(r) == [choices |-> <<[message |-> [content |-> r]]>>]

NoChoicesBody == [object |-> <<"error">>]

EmptyChoicesBody == [choices |-> <<>>]

Bodies == {GoodBody(r) : r \in Replies} \cup {NoChoicesBody, EmptyChoicesBody}

\* str(e) of the exceptions requests.post can raise (no connection, timeout).
TransportErrors == {<<"Connection refused">>}

\* str(e) of the HTTPError raised by raise_for_status.
StatusErrors == {<<"401 Client Error: Unauthorized">>}

\* str(e) of the decode error raised by response.json() on a non-JSON body.
DecodeErrors == {<<"Expecting value">>}

\* Value of a script variable that the current run has not bound.
NoValue == <<>>

VARIABLES
    messages,       \* st.session_state.messages
    api_key,        \* value of the sidebar text_input
    pc,             \* position of the script run: idle / user_appended / awaiting / got_response
    prompt,         \* value returned by st.chat_input in the latest run
    full_response,  \* local full_response of the latest run
    wire,           \* the request of the latest requests.post: headers and JSON payload
    inflight,       \* requests posted and not yet answered
    calls,          \* invocations of get_mistral_response in the latest run
    posts,          \* requests.post calls in the latest run
    outcome,        \* how the latest exchange ended
    received,       \* the JSON body of the latest success-status answer, <<body>> or <<>>
    run_error,      \* exception that ended the latest run uncaught ("none" otherwise)
    warning,        \* st.error shown by the latest run
    event,          \* widget that triggered the latest run
    pre,            \* history: transcript when the latest run was triggered
    appended        \* history: turns passed to append since the transcript was last emptied

vars == <<messages, api_key, pc, prompt, full_response, wire, inflight, calls,
          posts, outcome, received, run_error, warning, event, pre, appended>>

\* ------------------------------------------------------------- helpers
\* variant: an append that skips a turn equal to one already stored
ListAppend_Dedup(l, x) ==
    IF \E i \in 1..Len(l) : l[i] = x THEN l ELSE Append(l, x)

\* list.append
ListAppend(l, x) == Append(l, x)

UserTurn(p) == [role |-> "user", content |-> p]

AssistantTurn(c) == [role |-> "assistant", content |-> c]

\* variant: the key check never fires
NotApiKey_Never(k) == FALSE

\* `not api_key`
NotApiKey(k) == k = <<>>

\* `if prompt := ...` : None and "" are both falsy
Truthy(p) == p # <<>>

\* f"Bearer {api_key}" inside the headers dict
Headers(k) == [ContentType |-> <<"application/json">>,
               Authorization |-> <<"Bearer ">> \o k]

\* json= serialisation of one message dict: an object of key/value pairs
JsonMessage(m) == << <<"role", m.role>>, <<"content", m.content>> >>

\* variant: only the newest message is sent
Payload_LastOnly(msgs) ==
    [model |-> "mistral-small-latest",
     messages |-> [i \in 1..(IF Len(msgs) = 0 THEN 0 ELSE 1) |-> JsonMessage(msgs[Len(msgs)])],
     temperature |-> "0.7",
     max_tokens |-> 1000]

\* the payload dict as serialised into the request body
Payload(msgs) == [model |-> "mistral-small-latest",
                  messages |-> [i \in 1..Len(msgs) |-> JsonMessage(msgs[i])],
                  temperature |-> "0.7",
                  max_tokens |-> 1000]

\* result['choices'][0]['message']['content'] can be evaluated
HasContentPath(body) ==
    /\ "choices" \in DOMAIN body
    /\ Len(body.choices) >= 1
    /\ "message" \in DOMAIN body.choices[1]
    /\ "content" \in DOMAIN body.choices[1].message

\* variant: the message object is returned instead of its content
ExtractContent_WholeMessage(body) ==
    <<"{'content': ">> \o body.choices[1].message.content \o <<"}">>

ExtractContent(body) == body.choices[1].message.content

\* the exception the subscript expression raises on a body without the path
PathError(body) == IF "choices" \in DOMAIN body THEN "IndexError" ELSE "KeyError"

\* the f-string returned by the except branch; its literal parts are cut into
\* chunks (the leading cross-mark emoji is written "(x) ")
ErrorMessage(e) ==
    <<"(x) ", "Error: ">> \o e \o <<"\n\n", "Please check your API key and try again.">>

\* exception classes the except clause catches
RequestExceptions == {"ConnectionError", "HTTPError", "requests.JSONDecodeError"}

\* variant: the except clause names HTTPError only
Caught_OnlyHTTPError(cls) == cls = "HTTPError"

Caught(cls) == cls \in RequestExceptions

\* the script is not running: the page waits for a widget event
ScriptIdle == pc = "idle"

\* ---------------------------------------------------------------- Init
Init ==
    /\ messages = <<>>
    /\ api_key = <<>>
    /\ pc = "idle"
    /\ prompt = NoValue
    /\ full_response = NoValue
    /\ wire = NoValue
    /\ inflight = 0
    /\ calls = 0
    /\ posts = 0
    /\ outcome = "none"
    /\ received = <<>>
    /\ run_error = "none"
    /\ warning = FALSE
    /\ event = "load"
    /\ pre = <<>>
    /\ appended = <<>>

\* a fresh run of the script rebinds its locals and redraws the page
FreshRun(ev) ==
    /\ event' = ev
    /\ pre' = messages
    /\ full_response' = NoValue
    /\ calls' = 0
    /\ posts' = 0
    /\ outcome' = "none"
    /\ received' = <<>>
    /\ run_error' = "none"

\* ------------------------------------------------------------- actions
\* The sidebar text box changes: the script reruns with no button and no prompt.
TextInput(k) ==
    /\ ScriptIdle
    /\ k # api_key
    /\ api_key' = k
    /\ FreshRun("text_input")
    /\ prompt' = NoValue
    /\ warning' = FALSE
    /\ UNCHANGED <<messages, pc, wire, inflight, appended>>

\* variant: the button drops the latest exchange only
ClearButton_DropLast ==
    /\ ScriptIdle
    /\ messages' = SubSeq(messages, 1, Len(messages) - 2)
    /\ appended' = SubSeq(appended, 1, Len(appended) - 2)
    /\ FreshRun("button")
    /\ prompt' = NoValue
    /\ warning' = FALSE
    /\ UNCHANGED <<api_key, pc, wire, inflight>>

\* "Clear Chat History": messages = [] and st.rerun(), the rerun has no event.
ClearButton ==
    /\ ScriptIdle
    /\ messages' = <<>>
    /\ appended' = <<>>
    /\ FreshRun("button")
    /\ prompt' = NoValue
    /\ warning' = FALSE
    /\ UNCHANGED <<api_key, pc, wire, inflight>>

\* A text is submitted in the chat box: key check, then the user turn.
ChatInput(p) ==
    /\ ScriptIdle
    /\ Len(messages) + 2 <= MaxTurns
    /\ Truthy(p)
    /\ FreshRun("chat_input")
    /\ prompt' = p
    /\ IF NotApiKey(api_key)
       THEN /\ warning' = TRUE
            /\ UNCHANGED <<messages, appended, pc>>
       ELSE /\ warning' = FALSE
            /\ messages' = ListAppend(messages, UserTurn(p))
            /\ appended' = Append(appended, UserTurn(p))
            /\ pc' = "user_appended"
    /\ UNCHANGED <<api_key, wire, inflight>>

\* variant: the request is sent without waiting for its answer
CallMistral_Async ==
    /\ pc = "user_appended"
    /\ calls' = calls + 1
    /\ posts' = posts + 1
    /\ inflight' = inflight + 1
    /\ wire' = [headers |-> Headers(api_key), json |-> Payload(messages)]
    /\ pc' = "idle"
    /\ UNCHANGED <<messages, api_key, prompt, full_response, outcome, received, run_error,
                   warning, event, pre, appended>>

\* get_mistral_response is entered and issues requests.post; the script
\* blocks in the call until the answer or an exception arrives.
CallMistral ==
    /\ pc = "user_appended"
    /\ calls' = calls + 1
    /\ posts' = posts + 1
    /\ inflight' = inflight + 1
    /\ wire' = [headers |-> Headers(api_key), json |-> Payload(messages)]
    /\ pc' = "awaiting"
    /\ UNCHANGED <<messages, api_key, prompt, full_response, outcome, received, run_error,
                   warning, event, pre, appended>>

\* An exception of class cls with text e leaves the try block.
Raise(cls, e) ==
    IF Caught(cls)
    THEN /\ full_response' = ErrorMessage(e)
         /\ pc' = "got_response"
         /\ run_error' = "none"
    ELSE /\ full_response' = NoValue
         /\ pc' = "idle"
         /\ run_error' = cls

\* variant: a failed post is issued again
TransportFailure_Retry(e) ==
    /\ pc = "awaiting"
    /\ posts < 3
    /\ posts' = posts + 1
    /\ outcome' = "transport"
    /\ UNCHANGED <<messages, api_key, pc, prompt, full_response, wire, inflight,
                   calls, received, run_error, warning, event, pre, appended>>

\* requests.post raises: nothing answered.
TransportFailure(e) ==
    /\ pc = "awaiting"
    /\ inflight' = inflight - 1
    /\ outcome' = "transport"
    /\ received' = <<>>
    /\ Raise("ConnectionError", e)
    /\ UNCHANGED <<messages, api_key, prompt, wire, calls, posts, warning,
                   event, pre, appended>>

\* a non-success status: raise_for_status raises HTTPError.
HTTPStatusFailure(e) ==
    /\ pc = "awaiting"
    /\ inflight' = inflight - 1
    /\ outcome' = "http_status"
    /\ received' = <<>>
    /\ Raise("HTTPError", e)
    /\ UNCHANGED <<messages, api_key, prompt, wire, calls, posts, warning,
                   event, pre, appended>>

\* a success status whose body is not JSON: response.json() raises a decode
\* error, a RequestException or a plain ValueError depending on the library.
InvalidJson(e, cls) ==
    /\ pc = "awaiting"
    /\ inflight' = inflight - 1
    /\ outcome' = "invalid_json"
    /\ received' = <<>>
    /\ Raise(cls, e)
    /\ UNCHANGED <<messages, api_key, prompt, wire, calls, posts, warning,
                   event, pre, appended>>

\* a success status with a JSON body: the content is extracted and returned.
SuccessStatus(body) ==
    /\ pc = "awaiting"
    /\ inflight' = inflight - 1
    /\ received' = <<body>>
    /\ IF HasContentPath(body)
       THEN /\ outcome' = "ok"
            /\ full_response' = ExtractContent(body)
            /\ pc' = "got_response"
            /\ run_error' = "none"
       ELSE /\ outcome' = "missing_path"
            /\ Raise(PathError(body), <<"choices">>)
    /\ UNCHANGED <<messages, api_key, prompt, wire, calls, posts, warning,
                   event, pre, appended>>

\* the returned text is stored as the assistant turn.
AppendAssistant ==
    /\ pc = "got_response"
    /\ messages' = ListAppend(messages, AssistantTurn(full_response))
    /\ appended' = Append(appended, AssistantTurn(full_response))
    /\ pc' = "idle"
    /\ UNCHANGED <<api_key, prompt, full_response, wire, inflight, calls, posts,
                   outcome, received, run_error, warning, event, pre>>

Next ==
    \/ \E k \in ApiKeys : TextInput(k)
    \/ ClearButton
    \/ \E p \in Prompts : ChatInput(p)
    \/ CallMistral
    \/ \E e \in TransportErrors : TransportFailure(e)
    \/ \E e \in StatusErrors : HTTPStatusFailure(e)
    \/ \E body \in Bodies : SuccessStatus(body)
    \/ \E e \in DecodeErrors : \E cls \in {"requests.JSONDecodeError", "ValueError"} :
          InvalidJson(e, cls)
    \/ AppendAssistant

Spec == Init /\ [][Next]_vars

TypeOK ==
    /\ api_key \in ApiKeys
    /\ pc \in {"idle", "user_appended", "awaiting", "got_response"}
    /\ Len(messages) <= MaxTurns
    /\ \A i \in 1..Len(messages) : messages[i].role \in {"user", "assistant"}
    /\ inflight \in 0..1

\* ------------------------------------------------------------ properties
IsPrefix(a, b) == Len(a) <= Len(b) /\ SubSeq(b, 1, Len(a)) = a

Contains(text, chunk) == \E i \in 1..Len(text) : text[i] = chunk

\* the text has the shape of the except branch's message
IsErrorText(text) ==
    /\ Contains(text, "Error: ")
    /\ Contains(text, "Please check your API key and try again.")

Alternates(l) ==
    \A i \in 1..Len(l) : l[i].role = (IF i % 2 = 1 THEN "user" ELSE "assistant")

\* a submission that passed the key check has run to its end
SubmissionDone == pc = "idle" /\ event = "chat_input" /\ ~warning

\* C1: a submission made while the key is empty changes nothing in the
\* transcript, invokes get_mistral_response not at all, and ends the run.
C1_EmptyKeyAborts ==
    /\ [](warning => /\ messages = pre
                     /\ calls = 0 /\ posts = 0 /\ inflight = 0
                     /\ pc = "idle")
    /\ [][(pc = "idle" /\ event' = "chat_input" /\ api_key = <<>>)
            => (warning' /\ messages' = messages /\ calls' = 0 /\ posts' = 0
                /\ inflight' = inflight /\ pc' = "idle")]_vars

C1_Witness ==
    warning /\ prompt # NoValue /\ Len(messages) >= 2 /\ api_key = <<>>

\* C2: a success status whose body lacks choices[0].message.content ends
\* like any other failure: no exception escapes and the error text is stored
\* as the assistant turn after the user turn.
C2_MalformedIsErrorTurn ==
    (outcome = "missing_path" /\ pc = "idle")
        => /\ run_error = "none"
           /\ Len(messages) = Len(pre) + 2
           /\ messages[Len(messages)].role = "assistant"
           /\ IsErrorText(messages[Len(messages)].content)

\* C3: a transport failure or a non-success status yields the error text,
\* which is stored as the assistant turn after the user turn, and the script
\* ends idle, where the next submission is taken.
C3_FailureIsAssistantTurn ==
    /\ (outcome \in {"transport", "http_status"} /\ pc # "idle")
          => (pc = "got_response" /\ IsErrorText(full_response))
    /\ (outcome \in {"transport", "http_status"} /\ pc = "idle")
          => /\ run_error = "none"
             /\ IsErrorText(full_response)
             /\ messages = pre \o <<[role |-> "user", content |-> prompt],
                                    [role |-> "assistant", content |-> full_response]>>
             /\ (Len(messages) + 2 <= MaxTurns
                    => ENABLED (\E p \in Prompts : ChatInput(p)))

C3_Witness ==
    /\ outcome = "transport" /\ pc = "idle"
    /\ Len(pre) = 2 /\ IsErrorText(pre[2].content)
    /\ Len(messages) = 4

\* C4: the transcript is empty or alternates user, assistant, user, ...
C4_Alternation == Alternates(messages)

\* C5: the transcript is exactly the turns appended since it was last
\* emptied, in call order, and every step other than the clear button keeps
\* the old transcript as a prefix of the new one.
C5_AppendOnly ==
    /\ [](messages = appended)
    /\ [][event' = "button" \/ IsPrefix(messages, messages')]_vars

C5_Witness ==
    /\ Len(messages) = 4
    /\ messages[1] = messages[3]
    /\ messages[2] = messages[4]

\* C6: after a submission of p answered with reply r, the transcript is the
\* one before the submission followed by the user turn p and the assistant
\* turn r.
C6_SuccessfulRoundTrip ==
    \A r \in Replies :
        (pc = "idle" /\ outcome = "ok" /\ received = <<GoodBody(r)>>)
            => messages = pre \o <<[role |-> "user", content |-> prompt],
                                   [role |-> "assistant", content |-> r]>>

C6_Witness ==
    /\ pc = "idle" /\ outcome = "ok"
    /\ pre = <<>>
    /\ messages = <<[role |-> "user", content |-> <<"Hello">>],
                    [role |-> "assistant", content |-> <<"Hi there">>]>>

\* C7: the clear button empties the transcript whatever its size and leaves
\* the key unchanged and no request posted.
C7_ClearEmptiesOnly ==
    [][event' = "button"
         => (messages' = <<>> /\ api_key' = api_key /\ inflight' = inflight
             /\ calls' = 0 /\ posts' = 0 /\ pc' = "idle")]_vars

C7_Witness ==
    event = "button" /\ Len(pre) = 4 /\ messages = <<>> /\ api_key # <<>>

C9_OnePostPerSubmission ==
    /\ posts = calls
    /\ calls \in 0..1
    /\ (pc \in {"awaiting", "got_response"} => calls = 1)
    /\ (SubmissionDone => calls = 1)

C9_Witness ==
    SubmissionDone /\ outcome = "transport" /\ posts = 1 /\ calls = 1

\* C10: when the request is posted the user turn is already stored, the
\* request carries the whole transcript in order with that turn last, and
\* the transcript stays as it is until get_mistral_response has returned.
C10_RequestCarriesTranscript ==
    (pc \in {"awaiting", "got_response"})
        => /\ messages = Append(pre, [role |-> "user", content |-> prompt])
           /\ Len(wire.json.messages) = Len(messages)
           /\ \A i \in 1..Len(messages) :
                 /\ wire.json.messages[i][1] = <<"role", messages[i].role>>
                 /\ wire.json.messages[i][2] = <<"content", messages[i].content>>

C10_Witness ==
    /\ pc = "awaiting"
    /\ Len(messages) = 3
    /\ IsErrorText(messages[2].content)
    /\ Len(wire.json.messages) = 3
====
